---- MODULE Spec2Model ----
(***************************************************************************)
(* The MapMaker component (A* search over a grid of tiles) and the maze    *)
(* generator mazePrimsAlgorithm of tslom/Project03_Pathfinding.            *)
(*                                                                         *)
(* The component's React state is the state of the model.  An async       *)
(* handler (startPathFind, generateMaze) is a process: its position, the   *)
(* props/state its closure captured when it was called, and its locals.    *)
(***************************************************************************)
EXTENDS Integers, Sequences, FiniteSets, TLC

(***************************************************************************)
(* Bounds of the model.  The component clamps the grid to 5..125 x 5..50;  *)
(* the model keeps the same code on grids of at most MaxW x MaxH tiles     *)
(* with at most MaxWalls hand-placed walls.                                *)
(***************************************************************************)
MaxW == 3
MaxH == 2
MaxWalls == 2

\* A search on its own is checked on every grid of at most MaxCells tiles.
MaxCells == 9

\* The speed slider runs from 1 to 50; the model's from 1 to MaxSpeed.
MaxSpeed == 2

\* Number of user events (clicks, mouse moves, input changes) in one behaviour
\* of the component.
MaxEvents == 4

\* A call of mazePrimsAlgorithm on its own is checked for every width and
\* height of at most MaxSide with at most MaxMazeCells cells, wide grids and
\* tall ones.
MaxSide == 4
MaxMazeCells == 9

\* The smallest width or height a call of mazePrimsAlgorithm is given.
MinDim == 0 - 1

(***************************************************************************)
(* Program constants.                                                      *)
(***************************************************************************)
D == 10

\* Math.round(Math.sqrt(D ** 2 + D ** 2)): the integer n with
\* n - 1/2 <= sqrt(v) < n + 1/2, i.e. (2n-1)^2 <= 4v < (2n+1)^2.
D2 ==
    LET v == D * D + D * D
    IN  CHOOSE n \in 0..(2 * D) :
            (2 * n - 1) * (2 * n - 1) <= 4 * v /\ 4 * v < (2 * n + 1) * (2 * n + 1)

VARIABLES
    \* useState of MapMaker
    width, height, currentNode, start, end, walls,
    openNodes, closedNodes, nodePath,
    mouseDown, toggleTile, instant, speed, diagonalMovement,
    iterations, distance,
    \* one call of startPathFind: position, captured closure, locals
    sPc, sEnv, openNodesLocal, closedNodesLocal, count,
    \* one call of generateMaze: position, captured closure, and the locals of
    \* mazePrimsAlgorithm (firstCell, grid, wallList) and its return value
    mPc, mEnv, firstCell, grid, wallList, mazeResult,
    \* number of user events so far
    events

inputVars == <<width, height, currentNode, start, end, walls,
               mouseDown, toggleTile, instant, speed, diagonalMovement>>
displayVars == <<openNodes, closedNodes, nodePath, iterations, distance>>
searchVars == <<sPc, sEnv, openNodesLocal, closedNodesLocal, count>>
mazeVars == <<mPc, mEnv, firstCell, grid, wallList, mazeResult>>
vars == <<inputVars, displayVars, searchVars, mazeVars, events>>

(***************************************************************************)
(* Coordinates and small helpers.                                          *)
(***************************************************************************)
Coord(cx, cy) == [x |-> cx, y |-> cy]

Abs(n) == IF n < 0 THEN -n ELSE n

Min(a, b) == IF a <= b THEN a ELSE b

Reverse(s) == [i \in 1..Len(s) |-> s[Len(s) + 1 - i]]

\* a comes no later than b in an x-outer, y-inner scan of the grid.
ScanBefore(a, b) == a.x < b.x \/ (a.x = b.x /\ a.y <= b.y)

\* A set of coordinates as the list an x-outer, y-inner scan produces.
RECURSIVE ScanList(_)
ScanList(S) ==
    IF S = {} THEN <<>>
    ELSE LET c == CHOOSE m \in S : \A o \in S : ScanBefore(m, o)
         IN  <<c>> \o ScanList(S \ {c})

(***************************************************************************)
(* The closure of one render: the state a handler called in it reads.      *)
(***************************************************************************)
Closure ==
    [width |-> width, height |-> height, start |-> start, end |-> end,
     walls |-> walls, diagonalMovement |-> diagonalMovement,
     instant |-> instant, speed |-> speed]

NoClosure == <<>>

(***************************************************************************)
(* isWallTile, isClosedNode, getValidNeighbors.                            *)
(***************************************************************************)
isWallTile(c, tx, ty) ==
    \E i \in 1..Len(c.walls) : c.walls[i].x = tx /\ c.walls[i].y = ty

\* Faulty variant of isClosedNode: no tile counts as closed.
isClosedNodeNever(node, closedLocal) == FALSE

isClosedNode(node, closedLocal) ==
    \E i \in 1..Len(closedLocal) :
        closedLocal[i].x = node.x /\ closedLocal[i].y = node.y

straight == <<Coord(-1, 0), Coord(0, 1), Coord(1, 0), Coord(0, -1)>>

diagonal == <<Coord(-1, 1), Coord(-1, -1), Coord(1, 1), Coord(1, -1)>>

directions(c) == IF c.diagonalMovement THEN straight \o diagonal ELSE straight

withinBounds(c, neighbor) ==
    neighbor.x >= 0 /\ neighbor.x < c.width /\ neighbor.y >= 0 /\ neighbor.y < c.height

\* Faulty variant of getValidNeighbors: the filter forgets the wall test.
getValidNeighborsThroughWalls(c, node, closedLocal) ==
    LET mapped == [i \in 1..Len(directions(c)) |->
                      Coord(directions(c)[i].x + node.x, directions(c)[i].y + node.y)]
        keep(neighbor) ==
            /\ withinBounds(c, neighbor)
            /\ ~isClosedNode(neighbor, closedLocal)
    IN  SelectSeq(mapped, keep)

getValidNeighbors(c, node, closedLocal) ==
    LET mapped == [i \in 1..Len(directions(c)) |->
                      Coord(directions(c)[i].x + node.x, directions(c)[i].y + node.y)]
        keep(neighbor) ==
            /\ withinBounds(c, neighbor)
            /\ ~isWallTile(c, neighbor.x, neighbor.y)
            /\ ~isClosedNode(neighbor, closedLocal)
    IN  SelectSeq(mapped, keep)

(***************************************************************************)
(* The heuristics.                                                         *)
(***************************************************************************)
\* Faulty variant of getDiagonalDistance: D2 - D in place of D2 - 2 * D.
getDiagonalDistanceOver(c, node) ==
    LET dx == Abs(node.x - c.end.x)
        dy == Abs(node.y - c.end.y)
    IN  D * (dx + dy) + (D2 - D) * Min(dx, dy)

getDiagonalDistance(c, node) ==
    LET dx == Abs(node.x - c.end.x)
        dy == Abs(node.y - c.end.y)
    IN  D * (dx + dy) + (D2 - 2 * D) * Min(dx, dy)

getManhattanDistance(c, node) ==
    LET dx == Abs(node.x - c.end.x)
        dy == Abs(node.y - c.end.y)
    IN  D * (dx + dy)

heuristic(c, node) ==
    IF c.diagonalMovement THEN getDiagonalDistance(c, node)
    ELSE getManhattanDistance(c, node)

(***************************************************************************)
(* Search nodes.  parent is <<>> (no parent) or <<the parent node>>: the   *)
(* code holds a reference to the closed node object, which is never       *)
(* written again.                                                          *)
(***************************************************************************)
Node(cx, cy, g, h, p) == [x |-> cx, y |-> cy, gCost |-> g, hCost |-> h, parent |-> p]

fCost(node) == node.gCost + node.hCost

sameCoord(a, b) == a.x = b.x /\ a.y = b.y

\* Faulty variant of the reduce callback: strict <, so the first minimum wins.
reduceTakesStrict(currentItem, minItem) == fCost(currentItem) < fCost(minItem)

\* The callback of openNodesLocal.reduce: TRUE when currentItem replaces minItem.
reduceTakes(currentItem, minItem) == fCost(currentItem) <= fCost(minItem)

\* openNodesLocal.reduce(...) without an initial value: minItem starts as the
\* first element and the scan runs over the rest in order.
RECURSIVE reduceFrom(_, _, _)
reduceFrom(open, i, minItem) ==
    IF i > Len(open) THEN minItem
    ELSE reduceFrom(open, i + 1,
                    IF reduceTakes(open[i], minItem) THEN open[i] ELSE minItem)

minFCostNode(open) == reduceFrom(open, 2, open[1])

\* openNodesLocal.filter(node => !(same coordinate as currentNode))
removeCoord(open, node) == SelectSeq(open, LAMBDA n : ~sameCoord(n, node))

\* Faulty variant of findIndex: the neighbour is never found in the open set.
findIndexMissing(open, neighbor) == 0

\* findIndex: 0 stands for -1.
findIndex(open, neighbor) ==
    IF \E i \in 1..Len(open) : sameCoord(open[i], neighbor)
    THEN CHOOSE i \in 1..Len(open) :
            /\ sameCoord(open[i], neighbor)
            /\ \A j \in 1..(i - 1) : ~sameCoord(open[j], neighbor)
    ELSE 0

stepCost(cur, neighbor) ==
    IF neighbor.x # cur.x /\ neighbor.y # cur.y THEN D2 ELSE D

\* Faulty variant of the relaxation test: >= keeps the dearer way in.
relaxTakesDearer(gCost, old) == gCost >= old.gCost

\* gCost <= openNodesLocal[openNodeIndex].gCost
relaxTakes(gCost, old) == gCost <= old.gCost

\* Faulty variant of the loop body: updatedNeighbor is built without `parent`.
relaxOneNoParent(c, open, cur, neighbor) ==
    LET gCost == cur.gCost + stepCost(cur, neighbor)
        hCost == heuristic(c, neighbor)
        openNodeIndex == findIndex(open, neighbor)
        updatedNeighbor == Node(neighbor.x, neighbor.y, gCost, hCost, <<>>)
    IN  IF openNodeIndex = 0 THEN Append(open, updatedNeighbor)
        ELSE IF relaxTakes(gCost, open[openNodeIndex])
             THEN [open EXCEPT ![openNodeIndex] = updatedNeighbor]
             ELSE open

\* One pass of `for (const neighbor of neighbors)`.
relaxOne(c, open, cur, neighbor) ==
    LET gCost == cur.gCost + stepCost(cur, neighbor)
        hCost == heuristic(c, neighbor)
        openNodeIndex == findIndex(open, neighbor)
        updatedNeighbor == Node(neighbor.x, neighbor.y, gCost, hCost, <<cur>>)
    IN  IF openNodeIndex = 0 THEN Append(open, updatedNeighbor)
        ELSE IF relaxTakes(gCost, open[openNodeIndex])
             THEN [open EXCEPT ![openNodeIndex] = updatedNeighbor]
             ELSE open

RECURSIVE relaxAll(_, _, _, _, _)
relaxAll(c, open, cur, neighbors, i) ==
    IF i > Len(neighbors) THEN open
    ELSE relaxAll(c, relaxOne(c, open, cur, neighbors[i]), cur, neighbors, i + 1)

\* closedNodesLocal.find(node => node is end): <<>> for undefined.
findEnd(c, closedLocal) ==
    IF \E i \in 1..Len(closedLocal) : sameCoord(closedLocal[i], c.end)
    THEN <<closedLocal[CHOOSE i \in 1..Len(closedLocal) :
                /\ sameCoord(closedLocal[i], c.end)
                /\ \A j \in 1..(i - 1) : ~sameCoord(closedLocal[j], c.end)]>>
    ELSE <<>>

\* while (current) { path.push(...); current = current.parent }
RECURSIVE tracePath(_)
tracePath(current) ==
    IF current = <<>> THEN <<>>
    ELSE <<Coord(current[1].x, current[1].y)>> \o tracePath(current[1].parent)

(***************************************************************************)
(* JavaScript runs one task at a time: while the synchronous part of a     *)
(* search (between two awaits) or of a maze generation runs, no other      *)
(* handler or timer callback starts.                                       *)
(***************************************************************************)
Running == sPc \in {"loop", "trace"} \/ mPc = "gen"

(***************************************************************************)
(* startPathFind.                                                          *)
(***************************************************************************)
\* reset(): setOpenNodes([]); setClosedNodes([]); setNodePath([])
StartPathFind ==
    /\ ~Running
    /\ sPc \in {"idle", "done"}
    /\ events < MaxEvents
    /\ events' = events + 1
    /\ sPc' = "loop"
    /\ sEnv' = Closure
    /\ openNodes' = <<>>
    /\ closedNodes' = <<>>
    /\ nodePath' = <<>>
    /\ openNodesLocal' =
          <<Node(start.x, start.y, 0, heuristic(Closure, start), <<>>)>>
    /\ closedNodesLocal' = <<>>
    /\ count' = 0
    /\ UNCHANGED <<mazeVars, inputVars, iterations, distance>>

\* The iteration that pops end: break before the neighbours, the setters and count++.
IterateBreak ==
    /\ sPc = "loop"
    /\ Len(openNodesLocal) > 0
    /\ LET cur == minFCostNode(openNodesLocal)
       IN  /\ sameCoord(cur, sEnv.end)
           /\ openNodesLocal' = removeCoord(openNodesLocal, cur)
           /\ closedNodesLocal' = Append(closedNodesLocal, cur)
    /\ sPc' = "trace"
    /\ UNCHANGED <<events, mazeVars, inputVars, displayVars, sEnv, count>>

\* A full iteration of the while loop.
IterateExpand ==
    /\ sPc = "loop"
    /\ Len(openNodesLocal) > 0
    /\ LET cur == minFCostNode(openNodesLocal)
           closedNext == Append(closedNodesLocal, cur)
           neighbors == getValidNeighbors(sEnv, cur, closedNext)
           openNext == relaxAll(sEnv, removeCoord(openNodesLocal, cur), cur, neighbors, 1)
       IN  /\ ~sameCoord(cur, sEnv.end)
           /\ openNodesLocal' = openNext
           /\ closedNodesLocal' = closedNext
           /\ openNodes' = openNext
           /\ closedNodes' = closedNext
    /\ count' = count + 1
    /\ sPc' = IF ~sEnv.instant /\ count' % sEnv.speed = 0 THEN "await" ELSE "loop"
    /\ UNCHANGED <<events, mazeVars, inputVars, nodePath, iterations, distance, sEnv>>

\* The timer of `await new Promise(resolve => setTimeout(resolve, 1))` fires.
Resume ==
    /\ ~Running
    /\ sPc = "await"
    /\ sPc' = "loop"
    /\ UNCHANGED <<events, mazeVars, inputVars, displayVars, sEnv, openNodesLocal, closedNodesLocal, count>>

\* The open set ran empty: the loop condition fails.
LoopExit ==
    /\ sPc = "loop"
    /\ Len(openNodesLocal) = 0
    /\ sPc' = "trace"
    /\ UNCHANGED <<events, mazeVars, inputVars, displayVars, sEnv, openNodesLocal, closedNodesLocal, count>>

\* Trace the path; setDistance only if end was closed; setNodePath; setIterations.
TracePath ==
    /\ sPc = "trace"
    /\ LET current == findEnd(sEnv, closedNodesLocal)
       IN  /\ distance' = IF current # <<>> THEN current[1].gCost ELSE distance
           /\ nodePath' = Reverse(tracePath(current))
    /\ iterations' = count
    /\ sPc' = "done"
    /\ UNCHANGED <<events, mazeVars, inputVars, openNodes, closedNodes, sEnv, openNodesLocal,
                   closedNodesLocal, count>>

(***************************************************************************)
(* mazePrimsAlgorithm(width, height).  grid is an array of `width` columns *)
(* of `height` booleans: TRUE is a passage, FALSE a wall.                  *)
(***************************************************************************)
\* Array.from({ length: width }, () => Array(height).fill(false)), for
\* height >= 0.  A length below 0 counts as 0: no column is made.
newGrid(w, h) == [gx \in 0..(w - 1) |-> [gy \in 0..(h - 1) |-> FALSE]]

\* The length of an array (its indices are 0..length-1).
arrayLength(a) == Cardinality(DOMAIN a)

\* grid[x][y] = true on an existing column x: an index past the end of the
\* column extends it.
setPassage(g, gx, gy) ==
    [g EXCEPT ![gx] = [k \in (DOMAIN g[gx]) \cup {gy} |->
                          IF k = gy THEN TRUE ELSE g[gx][k]]]

\* Math.floor(Math.random() * n) for n >= 0: 0 when n is 0.
randomBelow(n) == IF n = 0 THEN {0} ELSE 0..(n - 1)

\* grid[x][y] as a condition: reading past the end of a column gives
\* undefined, which is falsy.
gridAt(g, gx, gy) ==
    IF gx \in DOMAIN g /\ gy \in DOMAIN g[gx] THEN g[gx][gy] ELSE FALSE

\* Faulty variant of getCells: frontier cells two apart, as in the Prim
\* variant that carves the cell in between (which this code never carves).
getCellsTwoApart(w, h, coord) ==
    LET mapped == [i \in 1..Len(straight) |->
                      Coord(2 * straight[i].x + coord.x, 2 * straight[i].y + coord.y)]
    IN  SelectSeq(mapped, LAMBDA n : n.x >= 0 /\ n.y >= 0 /\ n.x < w /\ n.y < h)

\* getCells: the in-bounds 4-neighbours, in the order left, down, right, up.
getCells(w, h, coord) ==
    LET mapped == [i \in 1..Len(straight) |->
                      Coord(straight[i].x + coord.x, straight[i].y + coord.y)]
    IN  SelectSeq(mapped, LAMBDA n : n.x >= 0 /\ n.y >= 0 /\ n.x < w /\ n.y < h)

\* The passages among the cells of a list (the loop `count++`).
countPassages(g, cells) ==
    Cardinality({i \in 1..Len(cells) : gridAt(g, cells[i].x, cells[i].y)})

\* Faulty variant of the test: any passage next to the wall is enough.
convertsWallAny(cnt) == cnt >= 1

\* The test that turns the picked wall into a passage.
convertsWall(cnt) == cnt = 1

\* Faulty variant of the filter: every surrounding cell joins the wall list.
stillWallsAll(g, cells) == cells

\* wallSurroundings.filter(cell => !grid[cell.x][cell.y])
stillWalls(g, cells) == SelectSeq(cells, LAMBDA cell : ~gridAt(g, cell.x, cell.y))

\* Faulty variant of the removal: the first entry goes, not the picked one.
spliceFirst(list, idx) == [i \in 1..(Len(list) - 1) |-> list[i + 1]]

\* wallList.splice(randomWallIndex, 1)
splice(list, idx) ==
    [i \in 1..(Len(list) - 1) |-> IF i < idx THEN list[i] ELSE list[i + 1]]

\* The nested loops that collect finalWallList: x outer, y inner over
\* grid.length x grid[0].length.
RECURSIVE collectWalls(_, _, _, _, _)
collectWalls(g, w, h, gx, gy) ==
    IF gx >= w THEN <<>>
    ELSE IF gy >= h THEN collectWalls(g, w, h, gx + 1, 0)
    ELSE (IF ~gridAt(g, gx, gy) THEN <<Coord(gx, gy)>> ELSE <<>>)
            \o collectWalls(g, w, h, gx, gy + 1)

\* Faulty variant of the collection: the inner loop runs to grid.length.
finalWallListSquare(g, w, h) == collectWalls(g, w, w, 0, 0)

\* The loops run over grid.length and grid[0].length.
finalWallListOf(g, w, h) == collectWalls(g, arrayLength(g), arrayLength(g[0]), 0, 0)

\* Faulty variant of the scan: the loop is left as soon as either endpoint is
\* found (|| in place of && in the test of line 124).
RECURSIVE scanEndsUntilEither(_, _, _, _, _)
scanEndsUntilEither(g, w, h, i, st) ==
    IF i >= w THEN st
    ELSE IF st.startFound \/ st.endFound THEN st
    ELSE LET s1 == IF gridAt(g, 0, i) /\ ~st.startFound
                   THEN [st EXCEPT !.start = Coord(0, i), !.startFound = TRUE]
                   ELSE st
             s2 == IF gridAt(g, w - 1 - i, h - 1) /\ ~s1.endFound
                   THEN [s1 EXCEPT !.end = Coord(w - 1 - i, h - 1), !.endFound = TRUE]
                   ELSE s1
         IN  scanEndsUntilEither(g, w, h, i + 1, s2)

\* Faulty variant of the scan: the end test reads row 0 where the assignment
\* names row height - 1.
RECURSIVE scanEndsTopRow(_, _, _, _, _)
scanEndsTopRow(g, w, h, i, st) ==
    IF i >= w THEN st
    ELSE IF st.startFound /\ st.endFound THEN st
    ELSE LET s1 == IF gridAt(g, 0, i) /\ ~st.startFound
                   THEN [st EXCEPT !.start = Coord(0, i), !.startFound = TRUE]
                   ELSE st
             s2 == IF gridAt(g, w - 1 - i, 0) /\ ~s1.endFound
                   THEN [s1 EXCEPT !.end = Coord(w - 1 - i, h - 1), !.endFound = TRUE]
                   ELSE s1
         IN  scanEndsTopRow(g, w, h, i + 1, s2)

\* The scan for start and end: `for (let i = 0; i < grid.length; i++)`.
\* st is [start, end, startFound, endFound].
RECURSIVE scanEnds(_, _, _, _, _)
scanEnds(g, w, h, i, st) ==
    IF i >= w THEN st
    ELSE IF st.startFound /\ st.endFound THEN st
    ELSE LET s1 == IF gridAt(g, 0, i) /\ ~st.startFound
                   THEN [st EXCEPT !.start = Coord(0, i), !.startFound = TRUE]
                   ELSE st
             s2 == IF gridAt(g, w - 1 - i, h - 1) /\ ~s1.endFound
                   THEN [s1 EXCEPT !.end = Coord(w - 1 - i, h - 1), !.endFound = TRUE]
                   ELSE s1
         IN  scanEnds(g, w, h, i + 1, s2)

\* Faulty variant of the scan: the loop starts at i = 1.
scanResultFromOne(g, w, h) ==
    scanEnds(g, w, h, 1,
             [start |-> Coord(0, 0), end |-> Coord(0, 0),
              startFound |-> FALSE, endFound |-> FALSE])

scanResult(g, w, h) ==
    scanEnds(g, w, h, 0,
             [start |-> Coord(0, 0), end |-> Coord(0, 0),
              startFound |-> FALSE, endFound |-> FALSE])

NoCell == <<>>
NoGrid == <<>>
NoResult == <<>>

\* The call throws before the loop.  With width <= 0 the grid has no column
\* and `grid[firstCell.x][firstCell.y] = true` is a TypeError; with width > 0
\* and height < 0, Array(height) is a RangeError.
MazeThrow ==
    /\ ~Running
    /\ mPc = "await1"
    /\ mEnv.width <= 0 \/ mEnv.height < 0
    /\ mazeResult' = [error |-> IF mEnv.width <= 0 THEN "TypeError" ELSE "RangeError"]
    /\ mPc' = "threw"
    /\ UNCHANGED <<events, inputVars, displayVars, searchVars, mEnv, firstCell, grid, wallList>>

\* The call: pick firstCell at random, open it, seed wallList with its neighbours.
MazeBegin ==
    /\ ~Running
    /\ mPc = "await1"
    /\ mEnv.width > 0
    /\ mEnv.height >= 0
    /\ \E fx \in randomBelow(mEnv.width), fy \in randomBelow(mEnv.height) :
          /\ firstCell' = Coord(fx, fy)
          /\ grid' = setPassage(newGrid(mEnv.width, mEnv.height), fx, fy)
          /\ wallList' = getCells(mEnv.width, mEnv.height, Coord(fx, fy))
    /\ mPc' = "gen"
    /\ UNCHANGED <<events, inputVars, displayVars, searchVars, mEnv, mazeResult>>

\* One iteration of `while (wallList.length > 0)`.
MazeStep ==
    /\ mPc = "gen"
    /\ Len(wallList) > 0
    /\ \E randomWallIndex \in 1..Len(wallList) :
          LET randomWall == wallList[randomWallIndex]
              wallSurroundings == getCells(mEnv.width, mEnv.height, randomWall)
              cnt == countPassages(grid, wallSurroundings)
              opened == setPassage(grid, randomWall.x, randomWall.y)
          IN  IF convertsWall(cnt)
              THEN /\ grid' = opened
                   /\ wallList' = splice(wallList \o stillWalls(opened, wallSurroundings),
                                         randomWallIndex)
              ELSE /\ grid' = grid
                   /\ wallList' = splice(wallList, randomWallIndex)
    /\ UNCHANGED <<events, inputVars, displayVars, searchVars, mPc, mEnv, firstCell, mazeResult>>

\* The loop is over: collect finalWallList, derive start and end, return.
MazeFinish ==
    /\ mPc = "gen"
    /\ Len(wallList) = 0
    /\ LET ends == scanResult(grid, mEnv.width, mEnv.height)
       IN  mazeResult' =
              [finalWallList |-> finalWallListOf(grid, mEnv.width, mEnv.height),
               start |-> ends.start, end |-> ends.end]
    /\ mPc' = "await2"
    /\ UNCHANGED <<events, inputVars, displayVars, searchVars, mEnv, firstCell, grid, wallList>>

(***************************************************************************)
(* The handlers of the component.  A user event is handled only between    *)
(* tasks (~Running) and reads the state of the latest render.              *)
(***************************************************************************)
UserEvent ==
    /\ ~Running
    /\ events < MaxEvents
    /\ events' = events + 1

\* The tiles rendered, hence clickable: colIndex < width, rowIndex < height.
Tiles == {Coord(cx, cy) : cx \in 0..(width - 1), cy \in 0..(height - 1)}

\* The updater handleNodeClick passes to setWalls; tt is the toggleTile the
\* handler's closure holds.
wallsUpdater(prev, row, col, tt) ==
    LET isWall == \E i \in 1..Len(prev) : prev[i].x = row /\ prev[i].y = col
    IN  IF isWall /\ ~tt
        THEN SelectSeq(prev, LAMBDA node : ~(node.x = row /\ node.y = col))
        ELSE IF ~isWall /\ tt
        THEN Append(prev, Coord(row, col))
        ELSE prev

\* handleNodeClick(row, col) in a closure whose toggleTile is tt.
handleNodeClick(row, col, tt) ==
    /\ start' = IF currentNode = "start" THEN Coord(row, col) ELSE start
    /\ end' = IF currentNode = "end" THEN Coord(row, col) ELSE end
    /\ walls' = IF currentNode = "wall" THEN wallsUpdater(walls, row, col, tt) ELSE walls

\* handleMouseDown: setToggleTile takes effect at the next render, so the
\* handleNodeClick it calls still sees the toggleTile of this render.
HandleMouseDown ==
    /\ UserEvent
    /\ \E t \in Tiles :
          /\ toggleTile' = ~isWallTile(Closure, t.x, t.y)
          /\ handleNodeClick(t.x, t.y, toggleTile)
          /\ currentNode = "wall" => Len(walls') <= MaxWalls
    /\ mouseDown' = TRUE
    /\ UNCHANGED <<width, height, currentNode, instant, speed, diagonalMovement,
                   displayVars, searchVars, mazeVars>>

HandleMouseEnter ==
    /\ UserEvent
    /\ mouseDown
    /\ currentNode = "wall"
    /\ \E t \in Tiles :
          /\ handleNodeClick(t.x, t.y, toggleTile)
          /\ Len(walls') <= MaxWalls
    /\ UNCHANGED <<width, height, currentNode, mouseDown, toggleTile, instant, speed,
                   diagonalMovement, displayVars, searchVars, mazeVars>>

HandleMouseUp ==
    /\ UserEvent
    /\ mouseDown
    /\ mouseDown' = FALSE
    /\ UNCHANGED <<width, height, currentNode, start, end, walls, toggleTile, instant,
                   speed, diagonalMovement, displayVars, searchVars, mazeVars>>

\* The three node buttons.
SetCurrentNode ==
    /\ UserEvent
    /\ \E m \in {"start", "end", "wall"} : m # currentNode /\ currentNode' = m
    /\ UNCHANGED <<width, height, start, end, walls, mouseDown, toggleTile, instant,
                   speed, diagonalMovement, displayVars, searchVars, mazeVars>>

\* The switches and the slider (shown only when instant is off).
SetDiagonalMovement ==
    /\ UserEvent
    /\ diagonalMovement' = ~diagonalMovement
    /\ UNCHANGED <<width, height, currentNode, start, end, walls, mouseDown, toggleTile,
                   instant, speed, displayVars, searchVars, mazeVars>>

SetInstant ==
    /\ UserEvent
    /\ instant' = ~instant
    /\ UNCHANGED <<width, height, currentNode, start, end, walls, mouseDown, toggleTile,
                   speed, diagonalMovement, displayVars, searchVars, mazeVars>>

SetSpeed ==
    /\ UserEvent
    /\ ~instant
    /\ \E v \in 1..MaxSpeed : v # speed /\ speed' = v
    /\ UNCHANGED <<width, height, currentNode, start, end, walls, mouseDown, toggleTile,
                   instant, diagonalMovement, displayVars, searchVars, mazeVars>>

\* reset(), from the Clear Pathfind button.
Reset ==
    /\ UserEvent
    /\ openNodes' = <<>>
    /\ closedNodes' = <<>>
    /\ nodePath' = <<>>
    /\ UNCHANGED <<inputVars, iterations, distance, searchVars, mazeVars>>

ResetWalls ==
    /\ UserEvent
    /\ walls # <<>>
    /\ walls' = <<>>
    /\ UNCHANGED <<width, height, currentNode, start, end, mouseDown, toggleTile, instant,
                   speed, diagonalMovement, displayVars, searchVars, mazeVars>>

\* useEffect(..., [width, height]): runs after the render that changed a dimension.
dimensionEffect(w, h) ==
    /\ openNodes' = <<>>
    /\ closedNodes' = <<>>
    /\ nodePath' = <<>>
    /\ walls' = <<>>
    /\ start' = Coord(0, 0)
    /\ end' = Coord(Min(1, w - 1), Min(1, h - 1))

\* handleWidthChange with an input that clamps to a new width.
HandleWidthChange ==
    /\ UserEvent
    /\ \E value \in 1..MaxW :
          /\ value # width
          /\ width' = value
          /\ dimensionEffect(value, height)
    /\ UNCHANGED <<height, currentNode, mouseDown, toggleTile, instant, speed,
                   diagonalMovement, iterations, distance, searchVars, mazeVars>>

HandleHeightChange ==
    /\ UserEvent
    /\ \E value \in 1..MaxH :
          /\ value # height
          /\ height' = value
          /\ dimensionEffect(width, value)
    /\ UNCHANGED <<width, currentNode, mouseDown, toggleTile, instant, speed,
                   diagonalMovement, iterations, distance, searchVars, mazeVars>>

\* generateMaze up to its first await.
GenerateMaze ==
    /\ UserEvent
    /\ mPc = "idle"
    /\ openNodes' = <<>>
    /\ closedNodes' = <<>>
    /\ nodePath' = <<>>
    /\ mPc' = "await1"
    /\ mEnv' = [width |-> width, height |-> height]
    /\ UNCHANGED <<inputVars, iterations, distance, searchVars, firstCell, grid,
                   wallList, mazeResult>>

\* generateMaze after its second await: setWalls, setStart, setEnd.
MazeApply ==
    /\ ~Running
    /\ mPc = "await2"
    /\ walls' = mazeResult.finalWallList
    /\ start' = mazeResult.start
    /\ end' = mazeResult.end
    /\ mPc' = "idle"
    /\ UNCHANGED <<width, height, currentNode, mouseDown, toggleTile, instant, speed,
                   diagonalMovement, displayVars, searchVars, mEnv, firstCell, grid,
                   wallList, mazeResult, events>>

(***************************************************************************)
(* Initial states and specifications.                                      *)
(***************************************************************************)
\* The wall lists of at most MaxWalls distinct tiles of the rendered grid.
WallLists ==
    {ScanList(S) : S \in {T \in SUBSET Tiles : Cardinality(T) <= MaxWalls}}

NoSearch ==
    /\ sPc = "idle"
    /\ sEnv = NoClosure
    /\ openNodesLocal = <<>>
    /\ closedNodesLocal = <<>>
    /\ count = 0

NoMaze ==
    /\ mPc = "idle"
    /\ mEnv = NoClosure
    /\ firstCell = NoCell
    /\ grid = NoGrid
    /\ wallList = <<>>
    /\ mazeResult = NoResult

FreshDisplay ==
    /\ openNodes = <<>>
    /\ closedNodes = <<>>
    /\ nodePath = <<>>
    /\ iterations = 0
    /\ distance = 0

\* One instant search on a component that has reported nothing yet, on every
\* grid, wall list, start, end and movement mode within the bounds.  start
\* and end are any tiles of the grid, walls included.
InitSearch ==
    /\ width \in 1..MaxCells
    /\ height \in 1..MaxCells
    /\ width * height <= MaxCells
    /\ currentNode = "start"
    /\ start \in Tiles
    /\ end \in Tiles
    /\ walls \in WallLists
    /\ mouseDown = FALSE
    /\ toggleTile = FALSE
    /\ instant = TRUE
    /\ speed = 50
    /\ diagonalMovement \in BOOLEAN
    /\ FreshDisplay
    /\ events = MaxEvents - 1
    /\ NoSearch
    /\ NoMaze

NextSearch ==
    \/ StartPathFind
    \/ IterateBreak
    \/ IterateExpand
    \/ LoopExit
    \/ TracePath

SpecSearch == InitSearch /\ [][NextSearch]_vars

\* One call of mazePrimsAlgorithm(width, height) for every width and height
\* within the bounds and every sequence of random choices.
InitMaze ==
    /\ width \in 1..MaxSide
    /\ height \in 1..MaxSide
    /\ width * height <= MaxMazeCells
    /\ currentNode = "start"
    /\ start = Coord(0, 0)
    /\ end = Coord(Min(1, width - 1), Min(1, height - 1))
    /\ walls = <<>>
    /\ mouseDown = FALSE
    /\ toggleTile = FALSE
    /\ instant = TRUE
    /\ speed = 50
    /\ diagonalMovement = TRUE
    /\ FreshDisplay
    /\ events = 0
    /\ NoSearch
    /\ mPc = "await1"
    /\ mEnv = [width |-> width, height |-> height]
    /\ firstCell = NoCell
    /\ grid = NoGrid
    /\ wallList = <<>>
    /\ mazeResult = NoResult

NextMaze ==
    \/ MazeBegin
    \/ MazeStep
    \/ MazeFinish

SpecMaze == InitMaze /\ [][NextMaze]_vars

\* mazePrimsAlgorithm is synchronous code called from a timer callback: once
\* the timer has fired, each step that can run does run.
SpecMazeFair ==
    /\ InitMaze
    /\ [][NextMaze]_vars
    /\ WF_vars(MazeBegin)
    /\ WF_vars(MazeStep)
    /\ WF_vars(MazeFinish)

\* One call of mazePrimsAlgorithm(w, h) for every w and h from MinDim up,
\* zero and negative dimensions included.
InitMazeCall ==
    /\ width = MaxW
    /\ height = MaxH
    /\ currentNode = "start"
    /\ start = Coord(0, 0)
    /\ end = Coord(Min(1, MaxW - 1), Min(1, MaxH - 1))
    /\ walls = <<>>
    /\ mouseDown = FALSE
    /\ toggleTile = FALSE
    /\ instant = TRUE
    /\ speed = 50
    /\ diagonalMovement = TRUE
    /\ FreshDisplay
    /\ events = 0
    /\ NoSearch
    /\ mPc = "await1"
    /\ \E w \in MinDim..MaxSide, h \in MinDim..MaxSide :
          /\ (w > 0 /\ h > 0) => w * h <= MaxMazeCells
          /\ mEnv = [width |-> w, height |-> h]
    /\ firstCell = NoCell
    /\ grid = NoGrid
    /\ wallList = <<>>
    /\ mazeResult = NoResult

NextMazeCall ==
    \/ MazeThrow
    \/ MazeBegin
    \/ MazeStep
    \/ MazeFinish

SpecMazeCall == InitMazeCall /\ [][NextMazeCall]_vars

\* The component after mounting: the useState defaults, then the effect of
\* the first render.
Init ==
    /\ width = MaxW
    /\ height = MaxH
    /\ currentNode = "start"
    /\ start = Coord(0, 0)
    /\ end = Coord(Min(1, MaxW - 1), Min(1, MaxH - 1))
    /\ walls = <<>>
    /\ mouseDown = FALSE
    /\ toggleTile = FALSE
    /\ instant = TRUE
    /\ speed = MaxSpeed
    /\ diagonalMovement = TRUE
    /\ FreshDisplay
    /\ events = 0
    /\ NoSearch
    /\ NoMaze

Next ==
    \/ HandleMouseDown
    \/ HandleMouseEnter
    \/ HandleMouseUp
    \/ SetCurrentNode
    \/ SetDiagonalMovement
    \/ SetInstant
    \/ SetSpeed
    \/ Reset
    \/ ResetWalls
    \/ HandleWidthChange
    \/ HandleHeightChange
    \/ GenerateMaze
    \/ MazeBegin
    \/ MazeStep
    \/ MazeFinish
    \/ MazeApply
    \/ StartPathFind
    \/ IterateBreak
    \/ IterateExpand
    \/ Resume
    \/ LoopExit
    \/ TracePath

Spec == Init /\ [][Next]_vars

\* Searches run one after another on a component whose tiles have been
\* edited: every wall list, start, end and movement mode within the bounds on
\* the MaxW x MaxH grid, then searches interleaved with further edits.
InitRuns ==
    /\ width = MaxW
    /\ height = MaxH
    /\ currentNode \in {"start", "end", "wall"}
    /\ start \in Tiles
    /\ end \in Tiles
    /\ walls \in WallLists
    /\ mouseDown = FALSE
    /\ toggleTile \in BOOLEAN
    /\ instant = TRUE
    /\ speed = MaxSpeed
    /\ diagonalMovement \in BOOLEAN
    /\ FreshDisplay
    /\ events = 0
    /\ NoSearch
    /\ NoMaze

NextRuns ==
    \/ HandleMouseDown
    \/ SetCurrentNode
    \/ SetDiagonalMovement
    \/ Reset
    \/ StartPathFind
    \/ IterateBreak
    \/ IterateExpand
    \/ LoopExit
    \/ TracePath

SpecRuns == InitRuns /\ [][NextRuns]_vars

(***************************************************************************)
(* Reference definitions the properties are stated against: the grid as a  *)
(* graph and its shortest-path costs, written without the search's code.   *)
(***************************************************************************)
\* The in-bounds tiles of closure c that are not walls.
Passable(c) ==
    {a \in {Coord(cx, cy) : cx \in 0..(c.width - 1), cy \in 0..(c.height - 1)} :
        ~\E i \in 1..Len(c.walls) : c.walls[i] = a}

\* b is one step from a: a straight step, or a diagonal one when allowed.
IsStep(c, a, b) ==
    LET dx == Abs(a.x - b.x)
        dy == Abs(a.y - b.y)
    IN  /\ dx <= 1
        /\ dy <= 1
        /\ dx + dy >= 1
        /\ (dx + dy = 2 => c.diagonalMovement)

RefStepCost(a, b) == IF a.x # b.x /\ a.y # b.y THEN 14 ELSE 10

Unreached == 0 - 1

MinOf(S) == CHOOSE m \in S : \A o \in S : m <= o

\* Shortest-path costs as a set of <<tile, cost>> pairs, one per reached
\* tile.  One round extends every pair by every step and keeps the cheapest
\* pair of each tile; the rounds stop when nothing changes.
RECURSIVE RelaxRounds(_, _)
RelaxRounds(c, S) ==
    LET tiles == Passable(c)
        cand == S \cup UNION {{<<v, p[2] + RefStepCost(p[1], v)>> :
                                  v \in {w \in tiles : IsStep(c, p[1], w)}} : p \in S}
        best == {p \in cand : \A q \in cand : q[1] = p[1] => p[2] <= q[2]}
    IN  IF best = S THEN S ELSE RelaxRounds(c, best)

\* The minimum cost of a path between `from` and every passable tile it
\* reaches.  Steps and their costs are symmetric, so this is also the cost of
\* the cheapest path from each tile to `from`.
CostsFrom(c, from) ==
    IF from \in Passable(c) THEN RelaxRounds(c, {<<from, 0>>}) ELSE {}

CostIn(S, to) ==
    IF \E p \in S : p[1] = to THEN (CHOOSE p \in S : p[1] = to)[2] ELSE Unreached

TrueCost(c, from, to) == CostIn(CostsFrom(c, from), to)

ValidEndpoints(c) == c.start \in Passable(c) /\ c.end \in Passable(c)

EndClosed == \E i \in 1..Len(closedNodesLocal) : sameCoord(closedNodesLocal[i], sEnv.end)

RECURSIVE PathCost(_, _)
PathCost(path, i) ==
    IF i >= Len(path) THEN 0
    ELSE RefStepCost(path[i], path[i + 1]) + PathCost(path, i + 1)

(***************************************************************************)
(* C1.  When end is reachable from start (both in-bounds, non-wall), the   *)
(* total cost a search reports is the minimum cost over all start-to-end   *)
(* paths, 10 per straight and 14 per diagonal step, in both movement modes.*)
(***************************************************************************)
C1_OptimalCost ==
    (sPc = "done" /\ ValidEndpoints(sEnv)) =>
        LET best == TrueCost(sEnv, sEnv.start, sEnv.end)
        IN  best # Unreached => distance = best

\* A finished diagonal-mode search whose walls forced a path dearer than the
\* heuristic's estimate from start.
C1_Witness ==
    /\ sPc = "done"
    /\ ValidEndpoints(sEnv)
    /\ sEnv.diagonalMovement
    /\ sEnv.start # sEnv.end
    /\ TrueCost(sEnv, sEnv.start, sEnv.end) # Unreached
    /\ distance = TrueCost(sEnv, sEnv.start, sEnv.end)
    /\ distance > heuristic(sEnv, sEnv.start)

(***************************************************************************)
(* C2.  A non-empty path of a search with in-bounds non-wall start and end *)
(* runs from start to end over in-bounds non-wall tiles, each one step     *)
(* from the one before (diagonal only when enabled), and the reported      *)
(* total cost is the sum of its step costs.                                *)
(***************************************************************************)
C2_PathValid ==
    (/\ sPc = "done"
     /\ ValidEndpoints(sEnv)
     /\ nodePath # <<>>)
        => /\ nodePath[1] = sEnv.start
           /\ nodePath[Len(nodePath)] = sEnv.end
           /\ \A i \in 1..Len(nodePath) : nodePath[i] \in Passable(sEnv)
           /\ \A i \in 1..(Len(nodePath) - 1) : IsStep(sEnv, nodePath[i], nodePath[i + 1])
           /\ distance = PathCost(nodePath, 1)

\* A finished search whose path has a straight and a diagonal step.
C2_Witness ==
    /\ sPc = "done"
    /\ ValidEndpoints(sEnv)
    /\ Len(nodePath) >= 3
    /\ \E i \in 1..(Len(nodePath) - 1) : RefStepCost(nodePath[i], nodePath[i + 1]) = 14
    /\ \E i \in 1..(Len(nodePath) - 1) : RefStepCost(nodePath[i], nodePath[i + 1]) = 10

(***************************************************************************)
(* C3.  Whenever a search finishes without end entering the closed set,    *)
(* the path is empty and the reported total cost is 0, whatever ran before.*)
(***************************************************************************)
C3_NoPathCostZero ==
    (sPc = "done" /\ ~EndClosed) => (nodePath = <<>> /\ distance = 0)

(***************************************************************************)
(* C4.  In the result of mazePrimsAlgorithm every passage cell (not in     *)
(* finalWallList) is reachable from the seed cell by 4-directional moves   *)
(* over passage cells.                                                     *)
(***************************************************************************)
MazeCells == {Coord(cx, cy) : cx \in 0..(mEnv.width - 1), cy \in 0..(mEnv.height - 1)}

ResultWalls == {mazeResult.finalWallList[i] : i \in 1..Len(mazeResult.finalWallList)}

ResultPassages == MazeCells \ ResultWalls

FourAdjacent(a, b) == Abs(a.x - b.x) + Abs(a.y - b.y) = 1

\* Flood fill over a set of cells.
RECURSIVE Flood(_, _)
Flood(reached, cells) ==
    LET more == {b \in cells \ reached : \E a \in reached : FourAdjacent(a, b)}
    IN  IF more = {} THEN reached ELSE Flood(reached \cup more, cells)

C4_PassagesConnected ==
    mPc = "await2" => ResultPassages = Flood({firstCell} \cap ResultPassages, ResultPassages)

\* A finished maze with at least four passages and a wall left.
C4_Witness ==
    /\ mPc = "await2"
    /\ Cardinality(ResultPassages) >= 4
    /\ ResultWalls # {}

(***************************************************************************)
(* C5.  finalWallList holds exactly the cells of the width x height domain *)
(* still marked wall when generation ends, each once and in bounds; walls  *)
(* and passages partition the grid and the seed cell is not a wall.        *)
(***************************************************************************)
C5_WallListPartition ==
    mPc = "await2" =>
        /\ ResultWalls = {c \in MazeCells : grid[c.x][c.y] = FALSE}
        /\ Len(mazeResult.finalWallList) = Cardinality(ResultWalls)
        /\ ResultWalls \subseteq MazeCells
        /\ MazeCells \ ResultWalls = {c \in MazeCells : grid[c.x][c.y] = TRUE}
        /\ firstCell \notin ResultWalls

\* A finished maze on a grid that is not square, with walls and passages.
C5_Witness ==
    /\ mPc = "await2"
    /\ mEnv.width # mEnv.height
    /\ Len(mazeResult.finalWallList) >= 2
    /\ Cardinality(ResultPassages) >= 2

(***************************************************************************)
(* C6.  If start or end lies on a wall or outside the grid, the search     *)
(* ends with an empty path.                                                *)
(***************************************************************************)
C6_BadEndpointEmptyPath ==
    (sPc = "done" /\ ~ValidEndpoints(sEnv)) => nodePath = <<>>

(***************************************************************************)
(* C7.  The node an iteration selects has the minimum fCost of the open    *)
(* set; among several with that minimum, which one is selected.            *)
(***************************************************************************)
\* This step is an iteration of the search loop: it closed one more node.
Selects == sPc = "loop" /\ Len(closedNodesLocal') = Len(closedNodesLocal) + 1

\* As claimed: the first in open-set order among the nodes of minimum fCost.
C7_FirstMinimumSelected ==
    [][Selects =>
        \E i \in 1..Len(openNodesLocal) :
            /\ openNodesLocal[i] = closedNodesLocal'[Len(closedNodesLocal')]
            /\ \A j \in 1..Len(openNodesLocal) :
                  fCost(openNodesLocal[j]) >= fCost(openNodesLocal[i])
            /\ \A j \in 1..(i - 1) :
                  fCost(openNodesLocal[j]) > fCost(openNodesLocal[i])]_vars

\* As the code does: the last in open-set order among the nodes of minimum
\* fCost (a later equal-cost candidate replaces the running choice).
C7_LastMinimumSelected ==
    [][Selects =>
        \E i \in 1..Len(openNodesLocal) :
            /\ openNodesLocal[i] = closedNodesLocal'[Len(closedNodesLocal')]
            /\ \A j \in 1..Len(openNodesLocal) :
                  fCost(openNodesLocal[j]) >= fCost(openNodesLocal[i])
            /\ \A j \in (i + 1)..Len(openNodesLocal) :
                  fCost(openNodesLocal[j]) > fCost(openNodesLocal[i])]_vars

\* An iteration has just selected a node while another open node, which the
\* iteration did not touch (it is no neighbour of the selected one), had the
\* same fCost.
C7_Witness ==
    /\ sPc \in {"loop", "trace"}
    /\ Len(closedNodesLocal) >= 2
    /\ LET sel == closedNodesLocal[Len(closedNodesLocal)]
       IN  \E i \in 1..Len(openNodesLocal) :
              /\ fCost(openNodesLocal[i]) = fCost(sel)
              /\ Abs(openNodesLocal[i].x - sel.x) > 1

(***************************************************************************)
(* C8.  The reported iterations equals the number of loop iterations, i.e. *)
(* of nodes moved from the open to the closed set, whether the search      *)
(* reached end or the open set ran empty.                                  *)
(***************************************************************************)
C8_IterationsCountClosed ==
    sPc = "done" => iterations = Len(closedNodesLocal)

(***************************************************************************)
(* C9.  A search's path, total cost and iterations depend on its inputs    *)
(* only: they are what the same search reports on a freshly mounted        *)
(* component, whatever ran before.                                         *)
(***************************************************************************)
\* The search loop run to its end from (open, closed, cnt).
RECURSIVE RunLoop(_, _, _, _)
RunLoop(c, open, closedLocal, cnt) ==
    IF Len(open) = 0 THEN [closed |-> closedLocal, count |-> cnt]
    ELSE LET cur == minFCostNode(open)
             closedNext == Append(closedLocal, cur)
         IN  IF sameCoord(cur, c.end) THEN [closed |-> closedNext, count |-> cnt]
             ELSE RunLoop(c,
                          relaxAll(c, removeCoord(open, cur), cur,
                                   getValidNeighbors(c, cur, closedNext), 1),
                          closedNext, cnt + 1)

\* What startPathFind reports when called with closure c on a component
\* whose distance and iterations still hold their initial 0.
FreshReport(c) ==
    LET r == RunLoop(c, <<Node(c.start.x, c.start.y, 0, heuristic(c, c.start), <<>>)>>,
                     <<>>, 0)
        current == findEnd(c, r.closed)
    IN  [nodePath |-> Reverse(tracePath(current)),
         distance |-> IF current # <<>> THEN current[1].gCost ELSE 0,
         iterations |-> r.count]

C9_ReportDependsOnInputsOnly ==
    sPc = "done" =>
        [nodePath |-> nodePath, distance |-> distance, iterations |-> iterations]
            = FreshReport(sEnv)

(***************************************************************************)
(* C10.  The heuristic of every search node is the Diagonal distance       *)
(* 10*(dx+dy) + (14-20)*min(dx,dy) exactly when diagonal movement is on    *)
(* and the Manhattan distance 10*(dx+dy) otherwise, and for every in-bounds*)
(* non-wall tile the heuristic is at most the true minimum cost to end.    *)
(***************************************************************************)
RefHeuristic(c, a) ==
    LET dx == Abs(a.x - c.end.x)
        dy == Abs(a.y - c.end.y)
    IN  IF c.diagonalMovement THEN 10 * (dx + dy) + (14 - 20) * Min(dx, dy)
        ELSE 10 * (dx + dy)

C10_HeuristicAdmissible ==
    /\ \A i \in 1..Len(openNodesLocal) :
          openNodesLocal[i].hCost = RefHeuristic(sEnv, openNodesLocal[i])
    /\ \A i \in 1..Len(closedNodesLocal) :
          closedNodesLocal[i].hCost = RefHeuristic(sEnv, closedNodesLocal[i])
    /\ (sPc = "loop" /\ count = 0 /\ closedNodesLocal = <<>> /\ sEnv.end \in Passable(sEnv)) =>
          LET toEnd == CostsFrom(sEnv, sEnv.end)
          IN  \A p \in toEnd : heuristic(sEnv, p[1]) <= p[2]

\* A diagonal-mode search has closed a tile whose heuristic is positive and
\* strictly below its true cost to end.
C10_Witness ==
    /\ sPc = "done"
    /\ sEnv.diagonalMovement
    /\ sEnv.end \in Passable(sEnv)
    /\ \E i \in 1..Len(closedNodesLocal) :
          LET n == closedNodesLocal[i]
              t == TrueCost(sEnv, Coord(n.x, n.y), sEnv.end)
          IN  n.hCost > 0 /\ t # Unreached /\ n.hCost < t

(***************************************************************************)
(* C11.  For every width, height >= 1, wide or tall, the start returned by *)
(* mazePrimsAlgorithm is the passage cell of column 0 with the smallest    *)
(* row index, and (0,0) when column 0 has no passage cell.                 *)
(***************************************************************************)
ColumnZeroPassages == {gy \in 0..(mEnv.height - 1) : grid[0][gy]}

C11_StartFirstPassageOfColumnZero ==
    mPc = "await2" =>
        mazeResult.start =
            IF ColumnZeroPassages = {} THEN Coord(0, 0)
            ELSE Coord(0, MinOf(ColumnZeroPassages))

\* A finished maze on a grid taller than wide whose cell (0,0) stayed a wall,
\* so that start is a cell further down column 0.
C11_Witness ==
    /\ mPc = "await2"
    /\ mEnv.width < mEnv.height
    /\ ~grid[0][0]
    /\ mazeResult.start.y >= 1

(***************************************************************************)
(* C12.  For every width, height >= 1 the end returned is the cell         *)
(* (width-1-i, height-1) for the smallest i in 0..height-1 at which that   *)
(* cell is a passage, whether or not start was found earlier, and (0,0) if *)
(* there is no such i.                                                     *)
(***************************************************************************)
BottomRowHits ==
    {i \in 0..(mEnv.height - 1) :
        /\ mEnv.width - 1 - i >= 0
        /\ grid[mEnv.width - 1 - i][mEnv.height - 1]}

LastColumnPassages ==
    {Coord(mEnv.width - 1, gy) : gy \in {y \in 0..(mEnv.height - 1) : grid[mEnv.width - 1][y]}}

C13_EndInLastColumn ==
    (mPc = "await2" /\ LastColumnPassages # {}) => mazeResult.end \in LastColumnPassages

(***************************************************************************)
(* C14.  A call with width <= 0 or height <= 0 is rejected with an error   *)
(* before any generation step: it neither enters the generation loop nor   *)
(* returns a maze result.                                                  *)
(***************************************************************************)
C14_InvalidDimensionsRejected ==
    (mEnv.width <= 0 \/ mEnv.height <= 0) => mPc \in {"await1", "threw"}

(***************************************************************************)
(* C15.  At every iteration boundary of the search loop the open and the   *)
(* closed set have no coordinate in common and the open set holds at most  *)
(* one entry per coordinate.                                               *)
(***************************************************************************)
C15_OpenClosedDisjoint ==
    /\ \A i \in 1..Len(openNodesLocal) : \A j \in 1..Len(closedNodesLocal) :
          ~sameCoord(openNodesLocal[i], closedNodesLocal[j])
    /\ \A i \in 1..Len(openNodesLocal) : \A j \in 1..Len(openNodesLocal) :
          sameCoord(openNodesLocal[i], openNodesLocal[j]) => i = j

\* The loop stands between two iterations with an open node that two closed
\* nodes both generated as a neighbour, and that node is in the open set once.
C15_Witness ==
    /\ sPc = "loop"
    /\ Len(closedNodesLocal) >= 2
    /\ \E i \in 1..Len(openNodesLocal) :
          \E j \in 1..Len(closedNodesLocal) : \E k \in (j + 1)..Len(closedNodesLocal) :
              /\ IsStep(sEnv, closedNodesLocal[j], openNodesLocal[i])
              /\ IsStep(sEnv, closedNodesLocal[k], openNodesLocal[i])
              /\ openNodesLocal[i].parent = <<closedNodesLocal[k]>>

(***************************************************************************)
(* C16.  During one search a coordinate is closed at most once, and once   *)
(* it is closed no open-set entry is created or updated for it: the closed *)
(* entries, their gCost and predecessor included, stay as they were.       *)
(***************************************************************************)
C16_ClosedNeverReconsidered ==
    [][sPc = "loop" =>
        /\ Len(closedNodesLocal') >= Len(closedNodesLocal)
        /\ \A j \in 1..Len(closedNodesLocal) : closedNodesLocal'[j] = closedNodesLocal[j]
        /\ \A j \in 1..Len(closedNodesLocal') : \A k \in 1..Len(closedNodesLocal') :
              sameCoord(closedNodesLocal'[j], closedNodesLocal'[k]) => j = k
        /\ \A i \in 1..Len(openNodesLocal') :
              (\A k \in 1..Len(openNodesLocal) : openNodesLocal'[i] # openNodesLocal[k])
                  => ~isClosedNode(openNodesLocal'[i], closedNodesLocal')]_vars

\* The node closed last is one step from a node closed earlier that is not
\* its predecessor: the earlier node was a candidate neighbour and is still
\* only in the closed set.
C16_Witness ==
    /\ sPc = "loop"
    /\ Len(closedNodesLocal) >= 3
    /\ LET cur == closedNodesLocal[Len(closedNodesLocal)]
       IN  \E j \in 1..(Len(closedNodesLocal) - 1) :
              /\ IsStep(sEnv, cur, closedNodesLocal[j])
              /\ cur.parent # <<closedNodesLocal[j]>>
    /\ Len(openNodesLocal) >= 1

(***************************************************************************)
(* C17.  In every state of a search the start node has no predecessor,     *)
(* the predecessor of every other open or closed node is a node of the     *)
(* closed set (closed before the node itself), and following predecessors  *)
(* from any node reaches start without repeating a coordinate.             *)
(***************************************************************************)
ClosedBefore(n, k) ==
    /\ n.parent # <<>>
    /\ \E j \in 1..k : closedNodesLocal[j] = n.parent[1]

ChainToStart(n) ==
    LET chain == tracePath(<<n>>)
    IN  /\ chain[Len(chain)] = sEnv.start
        /\ \A i \in 1..Len(chain) : \A j \in 1..Len(chain) : chain[i] = chain[j] => i = j

C17_PredecessorsClosedAcyclic ==
    sPc # "idle" =>
        /\ \A i \in 1..Len(openNodesLocal) :
              LET n == openNodesLocal[i]
              IN  /\ IF sameCoord(n, sEnv.start) THEN n.parent = <<>>
                     ELSE ClosedBefore(n, Len(closedNodesLocal))
                  /\ ChainToStart(n)
        /\ \A i \in 1..Len(closedNodesLocal) :
              LET n == closedNodesLocal[i]
              IN  /\ IF sameCoord(n, sEnv.start) THEN n.parent = <<>>
                     ELSE ClosedBefore(n, i - 1)
                  /\ ChainToStart(n)

\* A closed node whose predecessor chain has at least four nodes, and an
\* open node whose predecessor is not the start node.
C17_Witness ==
    /\ sPc = "loop"
    /\ \E i \in 1..Len(closedNodesLocal) : Len(tracePath(<<closedNodesLocal[i]>>)) >= 4
    /\ \E i \in 1..Len(openNodesLocal) :
          /\ openNodesLocal[i].parent # <<>>
          /\ ~sameCoord(openNodesLocal[i].parent[1], sEnv.start)

(***************************************************************************)
(* C18.  The search loop stops, in the iteration that closes end or when   *)
(* the open set is empty, after at most width * height iterations.         *)
(***************************************************************************)
C18_LoopWithinGridSize ==
    sPc # "idle" => Len(closedNodesLocal) <= sEnv.width * sEnv.height

(***************************************************************************)
(* C19.  For every width, height >= 1 and every sequence of random picks   *)
(* the generation loop ends with an empty frontier list: an iteration      *)
(* removes exactly the picked entry, appends entries only when it converts *)
(* a wall, and no cell is converted twice (a frontier entry is never a     *)
(* passage).                                                               *)
(***************************************************************************)
RemoveAt(list, idx) == SubSeq(list, 1, idx - 1) \o SubSeq(list, idx + 1, Len(list))

GridPassages == {c \in MazeCells : gridAt(grid, c.x, c.y)}

\* The cells that are passages after this step and were not before.
Converted == {c \in MazeCells : gridAt(grid', c.x, c.y) /\ ~gridAt(grid, c.x, c.y)}

IterationShape ==
    \E idx \in 1..Len(wallList) :
        /\ Len(wallList') >= Len(wallList) - 1
        /\ SubSeq(wallList', 1, Len(wallList) - 1) = RemoveAt(wallList, idx)
        /\ Len(wallList') > Len(wallList) - 1 => Converted # {}
        /\ Converted \subseteq {wallList[idx]}

C19_GenerationTerminates ==
    /\ [][(mPc = "gen" /\ mPc' = "gen") => IterationShape]_vars
    /\ [](mPc = "gen" =>
            \A i \in 1..Len(wallList) : ~gridAt(grid, wallList[i].x, wallList[i].y))
    /\ (mPc = "gen") ~> (mPc = "await2" /\ wallList = <<>>)

\* A finished generation that took some iteration with nothing to convert:
\* a wall is left although the frontier list is empty.
C19_Witness ==
    /\ mPc = "await2"
    /\ wallList = <<>>
    /\ Cardinality(GridPassages) >= 4
    /\ Cardinality(MazeCells \ GridPassages) >= 2

(***************************************************************************)
(* C20.  A cell becomes a passage only when exactly one of its in-bounds   *)
(* 4-neighbours is a passage, a passage never reverts to a wall, and the   *)
(* passages with 4-adjacency always form a tree: adjacent passage pairs =  *)
(* passages - 1, hence no cycle and no open 2x2 block.                     *)
(***************************************************************************)
AdjacentPassagePairs ==
    {pair \in SUBSET GridPassages :
        /\ Cardinality(pair) = 2
        /\ \E a \in pair : \E b \in pair : FourAdjacent(a, b)}

OpenBlock ==
    \E c \in GridPassages :
        /\ Coord(c.x + 1, c.y) \in GridPassages
        /\ Coord(c.x, c.y + 1) \in GridPassages
        /\ Coord(c.x + 1, c.y + 1) \in GridPassages

PassageNeighbours(c) == {p \in GridPassages : FourAdjacent(c, p)}

C20_PassagesFormTree ==
    /\ [](mPc \in {"gen", "await2"} =>
            /\ Cardinality(AdjacentPassagePairs) = Cardinality(GridPassages) - 1
            /\ ~OpenBlock)
    /\ [][mPc = "gen" =>
            /\ \A c \in GridPassages : gridAt(grid', c.x, c.y)
            /\ \A c \in Converted : Cardinality(PassageNeighbours(c)) = 1]_vars

\* A maze in the making with a wall that already has two passage
\* neighbours: converting it would close a cycle.
C20_Witness ==
    /\ mPc = "gen"
    /\ Cardinality(GridPassages) >= 3
    /\ \E i \in 1..Len(wallList) : Cardinality(PassageNeighbours(wallList[i])) >= 2

(***************************************************************************)
(* C21.  When the generation has finished no wall has exactly one passage  *)
(* among its in-bounds 4-neighbours; while it runs, every wall with a      *)
(* passage neighbour is in the frontier list or has at least two passage   *)
(* neighbours.                                                             *)
(***************************************************************************)
GridWalls == MazeCells \ GridPassages

InFrontier(c) == \E i \in 1..Len(wallList) : wallList[i] = c

C21_NoWallWithOnePassage ==
    /\ mPc = "gen" =>
          \A c \in GridWalls :
              Cardinality(PassageNeighbours(c)) >= 1 =>
                  (InFrontier(c) \/ Cardinality(PassageNeighbours(c)) >= 2)
    /\ mPc = "await2" =>
          \A c \in GridWalls : Cardinality(PassageNeighbours(c)) # 1

\* A finished maze with a wall between two passages and a wall no passage
\* touches.
C21_Witness ==
    /\ mPc = "await2"
    /\ \E c \in GridWalls : Cardinality(PassageNeighbours(c)) >= 2
    /\ \E c \in GridWalls : Cardinality(PassageNeighbours(c)) = 0

(***************************************************************************)
(* C22.  The start and end mazePrimsAlgorithm returns are passages (not in *)
(* finalWallList), and a search on the returned walls, start and end ends, *)
(* in either movement mode, with a non-empty path from start to end.       *)
(***************************************************************************)
\* The closure of a search on the maze result with the call's dimensions.
MazeSearch(diag) ==
    [width |-> mEnv.width, height |-> mEnv.height,
     start |-> mazeResult.start, end |-> mazeResult.end,
     walls |-> mazeResult.finalWallList, diagonalMovement |-> diag,
     instant |-> TRUE, speed |-> 50]

C22_MazeResultSearchable ==
    mPc = "await2" =>
        /\ mazeResult.start \in ResultPassages
        /\ mazeResult.end \in ResultPassages
        /\ \A diag \in BOOLEAN :
              LET path == FreshReport(MazeSearch(diag)).nodePath
              IN  /\ path # <<>>
                  /\ path[1] = mazeResult.start
                  /\ path[Len(path)] = mazeResult.end

\* A finished maze with walls whose start and end are at least three
\* straight steps apart.
C22_Witness ==
    /\ mPc = "await2"
    /\ ResultWalls # {}
    /\ Len(FreshReport(MazeSearch(FALSE)).nodePath) >= 4

(***************************************************************************)
(* C23.  In every reachable state of the component, whatever the order of  *)
(* dimension changes, tile clicks and the steps of a maze generation,      *)
(* start, end and every wall lie within the current grid.                  *)
(***************************************************************************)
C23_CoordinatesWithinGrid ==
    /\ start \in Tiles
    /\ end \in Tiles
    /\ \A i \in 1..Len(walls) : walls[i] \in Tiles

(***************************************************************************)
(* C24.  In wall mode a mouse-down on a tile toggles that tile: a tile     *)
(* that is no wall becomes one, a wall stops being one, no other tile      *)
(* changes, and the wall list holds no coordinate twice.                   *)
(***************************************************************************)
WallSet(ws) == {ws[i] : i \in 1..Len(ws)}

C24_MouseDownTogglesWall ==
    [][(HandleMouseDown /\ currentNode = "wall") =>
        /\ \E t \in Tiles :
              /\ toggleTile' = (t \notin WallSet(walls))
              /\ (t \in WallSet(walls')) = (t \notin WallSet(walls))
              /\ WallSet(walls') \ {t} = WallSet(walls) \ {t}
        /\ Len(walls') = Cardinality(WallSet(walls'))]_vars

(***************************************************************************)
(* C25.  Once Clear Pathfind has emptied the displayed open nodes, closed  *)
(* nodes and path, they stay empty until the next search is started, also  *)
(* when an animated search was suspended at its await.  The display has    *)
(* been cleared since the last search wrote to it exactly when it is empty *)
(* and no search is under way or the search under way has already counted  *)
(* an iteration (each counted iteration sets a non-empty closedNodes).     *)
(***************************************************************************)
DisplayEmpty == openNodes = <<>> /\ closedNodes = <<>> /\ nodePath = <<>>

C25_ClearedStaysCleared ==
    [][(DisplayEmpty /\ (sPc \in {"idle", "done"} \/ count > 0)) => DisplayEmpty']_vars

====
